---- MODULE Spec2Model ----
(***************************************************************************)
(* A state-machine model of the Oxen version-control engine:               *)
(*   - the local repository (working tree, staging, commits, refs, HEAD),  *)
(*   - the server side of push (commits KV, branch refs, branch locks,     *)
(*     the post-push finalize queue and its worker),                       *)
(*   - clone / pull into a fresh local repository.                         *)
(* Each part has its own specification over the shared variables.          *)
(***************************************************************************)
EXTENDS Integers, Sequences, FiniteSets, TLC

(* ------------------------------ bounds --------------------------------- *)
MaxHash == 2
MaxTime == 2
MaxCommits == 3

Hashes == 1..MaxHash
Times == 1..MaxTime

(* A path is the tuple of its components; its parent drops the last one.   *)
Paths == {<<"a.txt">>, <<"d", "b.txt">>}
RootDir == <<>>
Parent(p) == SubSeq(p, 1, Len(p) - 1)
Dirs == {Parent(p) : p \in Paths}
IsUnder(p, dir) == Len(dir) < Len(p) /\ SubSeq(p, 1, Len(dir)) = dir

OXEN_HIDDEN_DIR == <<".oxen">>
DEFAULT_BRANCH_NAME == "main"
LocalBranches == {DEFAULT_BRANCH_NAME, "b1"}

(* A file on disk or in a commit: content hash and modification time;      *)
(* hash 0 stands for "no such file".                                       *)
NoFile == [hash |-> 0, mtime |-> 0]
FileStates == {NoFile} \cup [hash : Hashes, mtime : Times]
NoEntry == [hash |-> 0, status |-> "None"]
NoEntries == [p \in Paths |-> NoFile]

VARIABLES
  wt,          \* working tree: Paths -> FileStates
  staged,      \* staged entries KV: Paths -> NoEntry or [hash, status]
  stagedDirs,  \* staged dirs KV (Stager.dir_db): set of directories
  conflicts,   \* merge-conflicts KV: set of paths
  commits,     \* local commits KV: sequence, commit id = index
  refs,        \* LocalBranches -> commit id, 0 = no such branch
  head,        \* HEAD file: [kind |-> "branch", name] or [kind |-> "commit", id]
  last,        \* the last command run and its outcome
  clock        \* the time of the latest write to the working tree

localVars == <<wt, staged, stagedDirs, conflicts, commits, refs, head, last, clock>>

VARIABLES
  srvCommits,  \* server commits KV: set of commit ids
  srvRefs,     \* server branch refs: branch -> commit id, 0 = no such branch
  lockFile,    \* server locks dir: lock file name -> contents, 0 = no file
  queue,       \* the finalize queue (commit_queue): sequence of tasks
  taken,       \* the task the worker popped and is running, or NoTask
  pending,     \* the tasks pushed onto the queue that no worker ran to the end
  pc,          \* per client: where its push is
  push,        \* per client: the push in progress
  cl,          \* per client: its local commits and head
  holders,     \* per lock file: clients granted the lock since it was last free
  failedHeld,  \* per lock file: a push failed while holding it, not unlocked since
  lastCreate   \* the last commit posted to the server and whether it was written

remoteVars == <<srvCommits, srvRefs, lockFile, queue, taken, pending,
                pc, push, cl, holders, failedHeld, lastCreate>>

VARIABLES
  origin,      \* the remote repository being cloned: its commits and branch heads
  opts,        \* the CloneOpts of the clone
  clonePc,     \* where the clone is
  clCommits,   \* the clone's commits KV
  clTrees,     \* the commits whose tree KV is in the clone
  clObjects,   \* the version files in the clone
  clHead,      \* the commit the clone's branch and HEAD point at, 0 = none yet
  shallowFlag  \* the SHALLOW_FLAG file exists

cloneVars == <<origin, opts, clonePc, clCommits, clTrees, clObjects, clHead, shallowFlag>>

VARIABLES
  mergeHead,   \* the commit id in MERGE_HEAD, 0 = no such file
  origHead     \* the commit id in ORIG_HEAD, 0 = no such file

mergeVars == <<mergeHead, origHead>>

VARIABLES
  versionFiles, \* object store: content hash -> the version file stored under it
  dfTable,      \* the staged table of the data frame in the mods database
  dfEntry       \* hash of the committed entry of the data frame, NoDfEntry = none

dfVars == <<versionFiles, dfTable, dfEntry>>

VARIABLES
  poller,       \* the task spawned for run_redis_poller: "running" or "dead"
  retries,      \* hash_file_contents_with_retry: failed attempts so far
  timeout,      \* hash_file_contents_with_retry: seconds slept after the last failure
  hashCall      \* hash_file_contents_with_retry: the call, its path and its result

serverVars == <<poller>>
retryVars == <<retries, timeout, hashCall>>

VARIABLES
  tree,         \* the entries of the browsed commit: file path -> entry.commit_id, 0 = no entry
  dirCache,     \* cache file dirs/<dir>/latest_commit of the commit: dir -> commit id, 0 = no file
  dirMeta,      \* the last answer of meta_entry_from_dir
  listing       \* the last answer of list_directory

browseVars == <<tree, dirCache, dirMeta, listing>>

vars == <<localVars, mergeVars, remoteVars, cloneVars, dfVars, serverVars, retryVars, browseVars>>
notLocal == <<remoteVars, cloneVars, dfVars, serverVars, retryVars, browseVars>>
notRemote == <<localVars, mergeVars, cloneVars, dfVars, serverVars, retryVars, browseVars>>
notClone == <<localVars, mergeVars, remoteVars, dfVars, serverVars, retryVars, browseVars>>
notDf == <<localVars, mergeVars, remoteVars, cloneVars, serverVars, retryVars, browseVars>>
notServer == <<localVars, mergeVars, cloneVars, dfVars, retryVars, browseVars>>
notRetry == <<localVars, mergeVars, remoteVars, cloneVars, dfVars, serverVars, browseVars>>
notBrowse == <<localVars, mergeVars, remoteVars, cloneVars, dfVars, serverVars, retryVars>>

(* ------------------------- refs and commits ---------------------------- *)
BranchValue(n) == [kind |-> "branch", name |-> n, id |-> 0]
CommitValue(i) == [kind |-> "commit", name |-> "", id |-> i]
CheckoutValues == {BranchValue(n) : n \in LocalBranches}
                    \cup {CommitValue(i) : i \in 1..MaxCommits}

CommitIdExists(i) == i \in 1..Len(commits)

RECURSIVE HistoryFromCommitId(_)
\* CommitReader.history_from_commit_id: commit i and every commit reachable
\* from it through parent ids
HistoryFromCommitId(i) ==
  IF ~CommitIdExists(i) THEN {}
  ELSE {i} \cup UNION {HistoryFromCommitId(commits[i].parents[k]) :
                         k \in DOMAIN commits[i].parents}

\* RefReader.head_commit_id: HEAD names a branch, or holds a commit id
HeadCommitId ==
  IF head.kind = "branch" THEN refs[head.name] ELSE head.id

\* RefReader.get_current_branch: the branch HEAD names, if it names one
CurrentBranch ==
  IF head.kind = "branch" /\ refs[head.name] # 0 THEN head.name ELSE ""

HeadEntries ==
  IF CommitIdExists(HeadCommitId) THEN commits[HeadCommitId].entries ELSE NoEntries

\* CommitDirReader.list_committed_dirs of the HEAD commit
CommittedDirs == {Parent(p) : p \in {q \in Paths : HeadEntries[q] # NoFile}}

(* ------------------------------ status --------------------------------- *)
\* Stager.has_staged_dir
HasStagedDir(dir) == dir \in stagedDirs

\* Stager.has_entry / get_entry
HasEntry(p) == staged[p] # NoEntry

\* the files a recursive walk of dir finds on disk; a walk of the empty
\* path "" (the key of the repository root in the dirs KV) finds nothing
WalkDir(dir) ==
  IF dir = RootDir THEN {} ELSE {p \in Paths : wt[p] # NoFile /\ IsUnder(p, dir)}

\* CommitEntry.has_different_modification_time, then the hash comparison
IsModifiedOnDisk(p) ==
  /\ HeadEntries[p] # NoFile
  /\ wt[p].mtime # HeadEntries[p].mtime
  /\ wt[p].hash # HeadEntries[p].hash

WalkModifiedIgnoringStaged(dir) == {p \in WalkDir(dir) : IsModifiedOnDisk(p)}

\* check_status_for_all_files_in_dir: what one walk adds to the status
WalkAdded(dir) == {p \in WalkDir(dir) : HasEntry(p)}
WalkModified(dir) == {p \in WalkDir(dir) : ~HasEntry(p) /\ IsModifiedOnDisk(p)}

\* top-level directories and files of the repository directory (read_dir)
RootDirsOnDisk ==
  {OXEN_HIDDEN_DIR} \cup {d \in Dirs : d # RootDir /\ Len(d) = 1 /\ WalkDir(d) # {}}
RootFilesOnDisk == {p \in Paths : Len(p) = 1 /\ wt[p] # NoFile}

\* number of times compute_staged_data pushes path p onto added_files
AddedFilesCount(p) ==
  Cardinality({d \in stagedDirs : p \in WalkAdded(d)})
  + Cardinality({d \in CommittedDirs : p \in WalkAdded(d)})
  + (IF p \in RootFilesOnDisk /\ HasEntry(p) THEN 1 ELSE 0)

ModifiedFilesCount(p) ==
  Cardinality({d \in stagedDirs : p \in WalkModified(d)})
  + Cardinality({d \in CommittedDirs : p \in WalkModified(d)})

\* Stager.compute_staged_data
ComputeStagedData ==
  [ added_dirs      |-> stagedDirs,
    added_files     |-> [p \in Paths |-> AddedFilesCount(p)],
    untracked_dirs  |-> {d \in RootDirsOnDisk : ~HasStagedDir(d)},
    untracked_files |-> {},
    modified_files  |-> [p \in Paths |-> ModifiedFilesCount(p)],
    removed_files   |-> {},
    merge_conflicts |-> conflicts ]

\* StagedData::is_clean
IsClean(status) ==
  /\ status.added_dirs = {}
  /\ \A p \in Paths : status.added_files[p] = 0
  /\ status.untracked_files = {}
  /\ status.untracked_dirs = {}
  /\ \A p \in Paths : status.modified_files[p] = 0
  /\ status.removed_files = {}

(* --------------------------- local commands ---------------------------- *)
Outcome(op, ok, covered) == [op |-> op, ok |-> ok, covered |-> covered]

\* every path whose working-tree content differs from HEAD has a staged
\* entry that records the current content (or its removal)
Covered ==
  \A p \in Paths :
    \/ wt[p].hash = HeadEntries[p].hash /\ ~HasEntry(p)
    \/ wt[p] # NoFile /\ HasEntry(p) /\ staged[p].status # "Removed"
         /\ staged[p].hash = wt[p].hash
    \/ wt[p] = NoFile /\ HasEntry(p) /\ staged[p].status = "Removed"

\* a user or tool writes a file of the working tree; the write stamps the
\* file with the current time, and time moves on
WriteFile(p, h) ==
  /\ clock < MaxTime
  /\ wt' = [wt EXCEPT ![p] = [hash |-> h, mtime |-> clock + 1]]
  /\ clock' = clock + 1
  /\ last' = Outcome("write", TRUE, FALSE)
  /\ UNCHANGED <<staged, stagedDirs, conflicts, commits, refs, head>>
  /\ UNCHANGED mergeVars
  /\ UNCHANGED notLocal

RemoveFile(p) ==
  /\ wt[p] # NoFile
  /\ wt' = [wt EXCEPT ![p] = NoFile]
  /\ UNCHANGED clock
  /\ last' = Outcome("remove", TRUE, FALSE)
  /\ UNCHANGED <<staged, stagedDirs, conflicts, commits, refs, head>>
  /\ UNCHANGED mergeVars
  /\ UNCHANGED notLocal

\* Stager.add_staged_entry: "ok", "err", and whether the staged KV is written
NeverConflict(p) == FALSE
AddFileIsConflict(p) == p \in conflicts
AddFileAlwaysChanged(p) == FALSE
AddFileUnchanged(p) ==
  HeadEntries[p] # NoFile /\ HeadEntries[p].hash = wt[p].hash
AddFileWrites(p) ==
  wt[p] # NoFile /\ (AddFileIsConflict(p) \/ ~AddFileUnchanged(p))
AddFileEntry(p) ==
  IF ~AddFileWrites(p) THEN staged[p]
  ELSE IF AddFileIsConflict(p) THEN [hash |-> wt[p].hash, status |-> "Added"]
  ELSE IF HeadEntries[p] # NoFile THEN [hash |-> wt[p].hash, status |-> "Modified"]
  ELSE [hash |-> wt[p].hash, status |-> "Added"]

\* StagedDirEntriesDB.add_removed_file, called from Stager.add_removed_file
RemovedEntry(p) == [hash |-> HeadEntries[p].hash, status |-> "Removed"]

\* Stager.add on a file path
AddPath(p) ==
  /\ IF wt[p] = NoFile
       THEN IF HeadEntries[p] # NoFile
              THEN /\ staged' = [staged EXCEPT ![p] = RemovedEntry(p)]
                   /\ last' = Outcome("add", TRUE, FALSE)
                   /\ UNCHANGED <<stagedDirs, conflicts>>
              ELSE /\ last' = Outcome("add", FALSE, FALSE)
                   /\ UNCHANGED <<staged, stagedDirs, conflicts>>
       ELSE /\ staged' = [staged EXCEPT ![p] = AddFileEntry(p)]
            /\ stagedDirs' = IF AddFileWrites(p) THEN stagedDirs \cup {Parent(p)}
                             ELSE stagedDirs
            /\ conflicts' = conflicts \ {p}
            /\ last' = Outcome("add", TRUE, FALSE)
  /\ UNCHANGED <<wt, commits, refs, head, clock>>
  /\ UNCHANGED mergeVars
  /\ UNCHANGED notLocal

\* Stager.add on a directory path: a directory that is gone stages the
\* removal of its committed files; add_dir adds the files the walk reports
AddDirPaths(d) == WalkModified(d)
AddDirectory(d) ==
  /\ d # RootDir
  /\ IF WalkDir(d) = {}
       THEN LET gone == {p \in Paths : IsUnder(p, d) /\ HeadEntries[p] # NoFile} IN
            IF gone # {}
              THEN /\ staged' = [p \in Paths |->
                                   IF p \in gone THEN RemovedEntry(p) ELSE staged[p]]
                   /\ last' = Outcome("add", TRUE, FALSE)
                   /\ UNCHANGED <<stagedDirs, conflicts>>
              ELSE /\ last' = Outcome("add", FALSE, FALSE)
                   /\ UNCHANGED <<staged, stagedDirs, conflicts>>
       ELSE /\ staged' = [p \in Paths |->
                            IF p \in AddDirPaths(d) THEN AddFileEntry(p) ELSE staged[p]]
            /\ stagedDirs' = stagedDirs \cup
                               {Parent(p) : p \in {q \in AddDirPaths(d) : AddFileWrites(q)}}
            /\ conflicts' = conflicts \ AddDirPaths(d)
            /\ last' = Outcome("add", TRUE, FALSE)
  /\ UNCHANGED <<wt, commits, refs, head, clock>>
  /\ UNCHANGED mergeVars
  /\ UNCHANGED notLocal

\* the entry set a commit records: HEAD's entries with staging applied
CommitEntries ==
  [p \in Paths |->
     IF ~HasEntry(p) THEN HeadEntries[p]
     ELSE IF staged[p].status = "Removed" THEN NoFile
     ELSE [hash |-> staged[p].hash, mtime |-> wt[p].mtime]]

\* a commit needs something staged, or a merge in progress
CommitCanRun ==
  /\ (\E p \in Paths : HasEntry(p)) \/ mergeHead # 0
  /\ CurrentBranch # ""
  /\ \A p \in Paths : (HasEntry(p) /\ staged[p].status # "Removed") => wt[p] # NoFile

\* the branch ref after a commit that got as far as step `reached` of
\* 1 = commit written to the commits KV, 2 = ref moved and staging cleared
RefAfterCommit(reached, old, new) == IF reached >= 2 THEN new ELSE old

SingleParent(orig, merge, h) == <<h>>

\* the parents of a new commit: HEAD, or, when a merge is in progress, the
\* HEAD before the merge and then MERGE_HEAD
CommitParentIds(orig, merge, h) == IF merge # 0 THEN <<orig, merge>> ELSE <<h>>

\* commit: write the commit, move the current branch ref, clear staging and
\* the merge state; the commit that ends a merge does not count against the
\* bound on the number of commits
Commit(reached) ==
  /\ Len(commits) < MaxCommits + (IF mergeHead # 0 THEN 1 ELSE 0)
  /\ IF ~CommitCanRun \/ reached = 0
       THEN /\ last' = Outcome("commit", FALSE, Covered)
            /\ UNCHANGED <<commits, refs, staged, stagedDirs, conflicts, mergeVars>>
       ELSE LET id == Len(commits) + 1 IN
            /\ commits' = Append(commits,
                            [parents |-> CommitParentIds(origHead, mergeHead, HeadCommitId),
                             entries |-> CommitEntries])
            /\ refs' = [refs EXCEPT ![CurrentBranch] =
                          RefAfterCommit(reached, refs[CurrentBranch], id)]
            /\ staged' = IF reached >= 2 THEN [p \in Paths |-> NoEntry] ELSE staged
            /\ stagedDirs' = IF reached >= 2 THEN {} ELSE stagedDirs
            /\ conflicts' = IF reached >= 2 THEN {} ELSE conflicts
            /\ mergeHead' = IF reached >= 2 THEN 0 ELSE mergeHead
            /\ origHead' = IF reached >= 2 THEN 0 ELSE origHead
            /\ last' = Outcome("commit", reached >= 2, Covered)
  /\ UNCHANGED <<wt, head, clock>>
  /\ UNCHANGED notLocal

\* api::local::branches::exists / is_checked_out
BranchExists(v) == v.kind = "branch" /\ refs[v.name] # 0
IsCheckedOut(v) == v.kind = "branch" /\ CurrentBranch = v.name

\* the commit a checkout value resolves to (0: none): a branch's commit for
\* set_working_branch, the commit with that id for set_working_commit_id
ResolveCheckout(v) ==
  IF BranchExists(v) THEN (IF CommitIdExists(refs[v.name]) THEN refs[v.name] ELSE 0)
  ELSE IF v.kind = "commit" /\ CommitIdExists(v.id) THEN v.id
  ELSE 0

NoUncommittedChanges == {}

\* a tracked file whose content was changed on disk and not staged
UncommittedChanges ==
  {p \in Paths : HeadEntries[p] # NoFile /\ ~HasEntry(p) /\ wt[p] # NoFile
                   /\ wt[p].hash # HeadEntries[p].hash}

MaterialiseTarget(p, target) == target[p]
RemoveOutsideTarget(p, target) ==
  IF target[p] = NoFile THEN NoFile
  ELSE IF target[p] = HeadEntries[p] THEN wt[p]
  ELSE target[p]

\* CommitWriter.set_working_repo_to_commit on path p: files only in HEAD are
\* deleted, files of the target that differ from HEAD are materialised with
\* the recorded mtime, everything else is left alone
RestoredFile(p, target) ==
  IF target[p] = HeadEntries[p] THEN wt[p]
  ELSE IF target[p] # NoFile THEN target[p]
  ELSE NoFile

HeadSetBeforeWorkingTree(ok, old, new) == new

\* HEAD after checkout: set_head runs only when the working tree was set
HeadAfterCheckout(ok, old, new) == IF ok THEN new ELSE old

\* command::checkout
Checkout(v, ioOk, done) ==
  /\ IF BranchExists(v) /\ IsCheckedOut(v)
       THEN /\ last' = Outcome("checkout", TRUE, FALSE)
            /\ UNCHANGED <<wt, head>>
       ELSE LET c == ResolveCheckout(v)
                ok == c # 0 /\ UncommittedChanges = {} /\ ioOk
                target == IF c # 0 THEN commits[c].entries ELSE NoEntries
                touched == IF ok THEN Paths
                           ELSE IF c # 0 /\ UncommittedChanges = {} THEN done
                           ELSE {}
                new == IF v.kind = "branch" THEN BranchValue(v.name) ELSE CommitValue(v.id)
            IN /\ wt' = [p \in Paths |->
                           IF p \in touched THEN RestoredFile(p, target) ELSE wt[p]]
               /\ head' = HeadAfterCheckout(ok, head, new)
               /\ last' = Outcome("checkout", ok, FALSE)
  /\ UNCHANGED <<staged, stagedDirs, conflicts, commits, refs, clock>>
  /\ UNCHANGED mergeVars
  /\ UNCHANGED notLocal

\* Merger::merge: entries of the merge commit missing from HEAD are copied
\* into the working tree; an entry present in HEAD with another hash stops
\* the merge with an error, after the copies made so far
MergeConflicting(theirs) ==
  {p \in Paths : theirs[p] # NoFile /\ HeadEntries[p] # NoFile
                   /\ theirs[p].hash # HeadEntries[p].hash}
MergeCopied(theirs) == {p \in Paths : theirs[p] # NoFile /\ HeadEntries[p] = NoFile}

Merge(b, done) ==
  /\ IF refs[b] = 0 \/ ~CommitIdExists(refs[b]) \/ ~CommitIdExists(HeadCommitId)
       THEN /\ last' = Outcome("merge", FALSE, FALSE)
            /\ UNCHANGED <<wt, clock>>
       ELSE LET theirs == commits[refs[b]].entries
                ok == MergeConflicting(theirs) = {}
                copied == IF ok THEN MergeCopied(theirs)
                          ELSE MergeCopied(theirs) \cap done
            IN /\ copied # {} => clock < MaxTime
               /\ wt' = [p \in Paths |->
                           IF p \in copied THEN [hash |-> theirs[p].hash, mtime |-> clock + 1]
                           ELSE wt[p]]
               /\ clock' = IF copied # {} THEN clock + 1 ELSE clock
               /\ last' = Outcome("merge", ok, FALSE)
  /\ UNCHANGED <<staged, stagedDirs, conflicts, commits, refs, head>>
  /\ UNCHANGED mergeVars
  /\ UNCHANGED notLocal

\* api::local::branches::create_checkout
CreateCheckout(n) ==
  /\ refs[n] = 0
  /\ CommitIdExists(HeadCommitId)
  /\ refs' = [refs EXCEPT ![n] = HeadCommitId]
  /\ head' = BranchValue(n)
  /\ last' = Outcome("branch", TRUE, FALSE)
  /\ UNCHANGED <<wt, staged, stagedDirs, conflicts, commits, clock>>
  /\ UNCHANGED mergeVars
  /\ UNCHANGED notLocal

AlwaysMerged(b) == TRUE

\* api::local::branches::branch_has_been_merged: the branch's commit is in
\* the history of the HEAD commit
BranchHasBeenMerged(b) == refs[b] \in HistoryFromCommitId(HeadCommitId)

\* api::local::branches::delete
Delete(b) ==
  /\ IF b # CurrentBranch /\ refs[b] # 0 /\ BranchHasBeenMerged(b)
       THEN /\ refs' = [refs EXCEPT ![b] = 0]
            /\ last' = Outcome("delete", TRUE, FALSE)
       ELSE /\ last' = Outcome("delete", FALSE, FALSE)
            /\ UNCHANGED refs
  /\ UNCHANGED <<wt, staged, stagedDirs, conflicts, commits, head, clock>>
  /\ UNCHANGED mergeVars
  /\ UNCHANGED notLocal

\* api::local::branches::force_delete
ForceDelete(b) ==
  /\ IF b # CurrentBranch /\ refs[b] # 0
       THEN /\ refs' = [refs EXCEPT ![b] = 0]
            /\ last' = Outcome("force_delete", TRUE, FALSE)
       ELSE /\ last' = Outcome("force_delete", FALSE, FALSE)
            /\ UNCHANGED refs
  /\ UNCHANGED <<wt, staged, stagedDirs, conflicts, commits, head, clock>>
  /\ UNCHANGED mergeVars
  /\ UNCHANGED notLocal

\* a repository right after init: the initial commit on the default branch
LocalInit ==
  /\ wt = [p \in Paths |-> NoFile]
  /\ staged = [p \in Paths |-> NoEntry]
  /\ stagedDirs = {}
  /\ conflicts = {}
  /\ commits = << [parents |-> <<>>, entries |-> NoEntries] >>
  /\ refs = [b \in LocalBranches |-> IF b = DEFAULT_BRANCH_NAME THEN 1 ELSE 0]
  /\ head = BranchValue(DEFAULT_BRANCH_NAME)
  /\ last = Outcome("init", TRUE, FALSE)
  /\ clock = 0
  /\ mergeHead = 0
  /\ origHead = 0

(* ----------------------- resolving a merge conflict -------------------- *)

\* a content that only the common ancestor of a conflict holds
BaseHash == MaxHash + 1

\* command::restore of path p from commit c: the version of p recorded in c
\* is copied over the working-tree file
RestoreFrom(p, c) == commits[c].entries[p]

ConflictTheirsForOurs(p) == mergeHead

\* the commit checkout_ours restores from, conflict.base_entry.commit_id: the
\* entry of the branch that was merged into
ConflictOursCommit(p) == origHead

\* the commit checkout_theirs restores from, conflict.merge_entry.commit_id
ConflictTheirsCommit(p) == mergeHead

CouldNotFindMergeConflict(op) ==
  [op |-> op, ok |-> FALSE, covered |-> FALSE, error |-> "CouldNotFindMergeConflict"]

\* command::checkout_ours
CheckoutOurs(p) ==
  /\ IF p \in conflicts
       THEN /\ wt' = [wt EXCEPT ![p] = RestoreFrom(p, ConflictOursCommit(p))]
            /\ last' = Outcome("checkout_ours", TRUE, FALSE)
       ELSE /\ last' = CouldNotFindMergeConflict("checkout_ours")
            /\ UNCHANGED wt
  /\ UNCHANGED <<staged, stagedDirs, conflicts, commits, refs, head, clock>>
  /\ UNCHANGED mergeVars
  /\ UNCHANGED notLocal

\* command::checkout_theirs
CheckoutTheirs(p) ==
  /\ IF p \in conflicts
       THEN /\ wt' = [wt EXCEPT ![p] = RestoreFrom(p, ConflictTheirsCommit(p))]
            /\ last' = Outcome("checkout_theirs", TRUE, FALSE)
       ELSE /\ last' = CouldNotFindMergeConflict("checkout_theirs")
            /\ UNCHANGED wt
  /\ UNCHANGED <<staged, stagedDirs, conflicts, commits, refs, head, clock>>
  /\ UNCHANGED mergeVars
  /\ UNCHANGED notLocal

\* a repository in which a three-way merge has just found path p changed on
\* both sides: the conflict is recorded, ours is left in the working tree,
\* MERGE_HEAD names the merged commit and ORIG_HEAD the HEAD commit
ConflictRecorded(p, inBase) ==
  LET base == [q \in Paths |->
                 IF q = p /\ inBase THEN [hash |-> BaseHash, mtime |-> 1] ELSE NoFile]
      ours == [base EXCEPT ![p] = [hash |-> 1, mtime |-> 1]]
      theirs == [base EXCEPT ![p] = [hash |-> 2, mtime |-> 1]]
  IN /\ wt = ours
     /\ staged = [q \in Paths |-> NoEntry]
     /\ stagedDirs = {}
     /\ conflicts = {p}
     /\ commits = << [parents |-> <<>>, entries |-> base],
                     [parents |-> <<1>>, entries |-> ours],
                     [parents |-> <<1>>, entries |-> theirs] >>
     /\ refs = [b \in LocalBranches |-> IF b = DEFAULT_BRANCH_NAME THEN 2 ELSE 3]
     /\ head = BranchValue(DEFAULT_BRANCH_NAME)
     /\ last = Outcome("merge", TRUE, FALSE)
     /\ clock = 1
     /\ mergeHead = 3
     /\ origHead = 2

(* ---------------------------- rm and restore --------------------------- *)

\* the files of the HEAD commit under directory d
CommittedUnder(d) == {p \in Paths : IsUnder(p, d) /\ HeadEntries[p] # NoFile}

\* command::rm of a directory, recursive and not --staged: a removal is
\* staged for every committed file under it and the directory is removed
\* from disk
Rm(d) ==
  /\ IF CommittedUnder(d) # {}
       THEN /\ staged' = [p \in Paths |->
                            IF p \in CommittedUnder(d) THEN RemovedEntry(p) ELSE staged[p]]
            /\ wt' = [p \in Paths |-> IF IsUnder(p, d) THEN NoFile ELSE wt[p]]
            /\ last' = Outcome("rm", TRUE, FALSE)
       ELSE /\ last' = Outcome("rm", FALSE, FALSE)
            /\ UNCHANGED <<staged, wt>>
  /\ UNCHANGED <<stagedDirs, conflicts, commits, refs, head, clock>>
  /\ UNCHANGED mergeVars
  /\ UNCHANGED notLocal

\* command::restore --staged of a directory: the staged entries under it
\* are dropped
RestoreStaged(d) ==
  /\ staged' = [p \in Paths |-> IF IsUnder(p, d) THEN NoEntry ELSE staged[p]]
  /\ stagedDirs' = {x \in stagedDirs : x # d /\ ~IsUnder(x, d)}
  /\ last' = Outcome("restore_staged", TRUE, FALSE)
  /\ UNCHANGED <<wt, conflicts, commits, refs, head, clock>>
  /\ UNCHANGED mergeVars
  /\ UNCHANGED notLocal

\* command::restore of a directory: every file of the HEAD commit under it
\* is copied from the object store over the working-tree path
Restore(d) ==
  /\ IF CommittedUnder(d) # {}
       THEN /\ wt' = [p \in Paths |->
                        IF p \in CommittedUnder(d) THEN RestoreFrom(p, HeadCommitId)
                        ELSE wt[p]]
            /\ last' = Outcome("restore", TRUE, FALSE)
       ELSE /\ last' = Outcome("restore", FALSE, FALSE)
            /\ UNCHANGED wt
  /\ UNCHANGED <<staged, stagedDirs, conflicts, commits, refs, head, clock>>
  /\ UNCHANGED mergeVars
  /\ UNCHANGED notLocal

(* ======================= the server side of push ======================= *)

(* The commits the clients work with: 1 is the commit both clones start    *)
(* from, 2 and 3 are made on top of it in two different clones, 4 merges   *)
(* them.                                                                   *)
CommitIds == 1..4
CommitParents(x) ==
  CASE x = 1 -> {} [] x = 2 -> {1} [] x = 3 -> {1} [] OTHER -> {2, 3}

RECURSIVE Ancestors(_)
\* CommitReader.history_from_commit_id: x and everything reachable from it
Ancestors(x) ==
  IF x = 0 THEN {}
  ELSE {x} \cup UNION {Ancestors(y) : y \in CommitParents(x)}

Clients == {"A", "B"}
(* a branch name is the tuple of its characters *)
SrvMain == <<"m", "a", "i", "n">>
SrvBranches == {SrvMain}
BranchBeingCreated == -1
NoTask == [commit |-> 0, branch |-> <<>>]

\* branch_name_no_slashes: every '/' becomes '-'
BranchNameNoSlashes(name) ==
  [i \in 1..Len(name) |-> IF name[i] = "/" THEN "-" ELSE name[i]]
LockNames == {BranchNameNoSlashes(b) : b \in SrvBranches}

\* api::local::branches::is_locked
IsLocked(b) == lockFile[BranchNameNoSlashes(b)] # 0

\* api::local::branches::lock, the test `branch_lock_file.exists()`:
\* TRUE when the request is refused with RemoteBranchLocked
LockRefused(b) == lockFile[BranchNameNoSlashes(b)] # 0

\* api::local::branches::lock, past the test: the current head of the
\* branch, or the marker of a branch being created, is written to the file
LockContents(b) == IF srvRefs[b] # 0 THEN srvRefs[b] ELSE BranchBeingCreated

\* api::local::branches::latest_synced_commit: the commit the lock file
\* names while the branch is locked, the branch's commit otherwise; 0 when
\* the commits KV has no commit of that id
LatestSyncedCommit(b) ==
  LET id == IF IsLocked(b) THEN lockFile[BranchNameNoSlashes(b)] ELSE srvRefs[b]
  IN IF id \in srvCommits THEN id ELSE 0

\* the lock files after api::local::branches::unlock
Unlocked(b) == [lockFile EXCEPT ![BranchNameNoSlashes(b)] = 0]
HoldersAfterUnlock(b) == [holders EXCEPT ![BranchNameNoSlashes(b)] = {}]
FailedAfterUnlock(b) == [failedHeld EXCEPT ![BranchNameNoSlashes(b)] = FALSE]

AddCommitUnchecked(x) == TRUE

\* CommitWriter.add_commit_to_db: the write is accepted only when every
\* parent of the commit is already in the commits KV
AddCommitToDbOk(x) == CommitParents(x) \subseteq srvCommits

\* controllers::commits::create_commit: the commit is added to the KV and,
\* when that worked, the branch is created if missing and set to the commit
CommitsAfterCreate(x) == IF AddCommitToDbOk(x) THEN srvCommits \cup {x} ELSE srvCommits
RefsAfterCreate(b, x) == IF AddCommitToDbOk(x) THEN [srvRefs EXCEPT ![b] = x] ELSE srvRefs

\* create_commit logs a failed add_commit_to_db and returns Ok(()) all the
\* same; controllers::commits::create answers by what create_commit returned
CreateCommitReturnsOk(addOk) == TRUE
CreateResponse(addOk) ==
  IF CreateCommitReturnsOk(addOk) THEN "success" ELSE "internal_server_error"

RECURSIVE ChildFirst(_)
ChildFirst(S) ==
  IF S = {} THEN <<>>
  ELSE LET x == CHOOSE y \in S : \A z \in S : y \notin CommitParents(z) IN
       <<x>> \o ChildFirst(S \ {x})

RECURSIVE ParentFirst(_)
\* the missing commits of a push, every commit after its parents
ParentFirst(S) ==
  IF S = {} THEN <<>>
  ELSE LET x == CHOOSE y \in S : CommitParents(y) \cap S = {} IN
       <<x>> \o ParentFirst(S \ {x})

\* push step 2: the local commits not on the remote, walking the parents
\* from the local head
MissingCommits(c) == Ancestors(cl[c].head) \ srvCommits

NoPush == [branch |-> <<>>, head |-> 0, todo |-> <<>>, stage |-> "none",
           preRef |-> 0, completed |-> {}, result |-> "none"]
Ended(result) == [NoPush EXCEPT !.result = result]

\* the commits two clones can make: the first commit of each clone on top of
\* the shared one, and the merge of the two
NextCommit(c, h) ==
  CASE h = 1 /\ c = "A" -> 2 [] h = 1 /\ c = "B" -> 3 [] OTHER -> 0
MergeCommit(ours, theirs) == IF {ours, theirs} = {2, 3} THEN 4 ELSE 0

Range(q) == {q[i] : i \in 1..Len(q)}

(* ---------------------------- branch lock ------------------------------ *)

\* api::local::branches::lock up to the test of the lock file: the request
\* is refused when the file exists, and goes on to write it otherwise
LockCheck(c, b) ==
  /\ pc[c] = "idle"
  /\ IF LockRefused(b)
       THEN /\ push' = [push EXCEPT ![c] = Ended("locked")]
            /\ UNCHANGED pc
       ELSE /\ pc' = [pc EXCEPT ![c] = "lock_checked"]
            /\ push' = [push EXCEPT ![c] = [NoPush EXCEPT !.branch = b]]
  /\ UNCHANGED <<srvCommits, srvRefs, lockFile, queue, taken, pending,
                 cl, holders, failedHeld, lastCreate>>
  /\ UNCHANGED notRemote

\* api::local::branches::lock from the test on: the lock file is written and
\* the request answers Ok; the client then lists the commits it has to send
LockWrite(c) ==
  /\ pc[c] = "lock_checked"
  /\ LET b == push[c].branch
         n == BranchNameNoSlashes(b) IN
     /\ lockFile' = [lockFile EXCEPT ![n] = LockContents(b)]
     /\ holders' = [holders EXCEPT ![n] = @ \cup {c}]
     /\ push' = [push EXCEPT ![c] = [@ EXCEPT !.todo = ParentFirst(MissingCommits(c)),
                                              !.head = cl[c].head,
                                              !.stage = "post",
                                              !.preRef = srvRefs[b]]]
  /\ pc' = [pc EXCEPT ![c] = "pushing"]
  /\ UNCHANGED <<srvCommits, srvRefs, queue, taken, pending, cl,
                 failedHeld, lastCreate>>
  /\ UNCHANGED notRemote

\* api::local::branches::unlock: removes the lock file when there is one
Unlock(b) ==
  /\ IsLocked(b)
  /\ lockFile' = Unlocked(b)
  /\ holders' = HoldersAfterUnlock(b)
  /\ failedHeld' = FailedAfterUnlock(b)
  /\ UNCHANGED <<srvCommits, srvRefs, queue, taken, pending, pc,
                 push, cl, lastCreate>>
  /\ UNCHANGED notRemote

(* ------------------------------- push ---------------------------------- *)

\* controllers::commits::create, called by a pushing client for the next
\* commit of its list
PostCommit(c) ==
  /\ pc[c] = "pushing" /\ push[c].stage = "post" /\ push[c].todo # <<>>
  /\ LET x == Head(push[c].todo) IN
     /\ srvCommits' = CommitsAfterCreate(x)
     /\ srvRefs' = RefsAfterCreate(push[c].branch, x)
     /\ lastCreate' = [commit |-> x, ok |-> AddCommitToDbOk(x)]
  /\ push' = [push EXCEPT ![c] = [@ EXCEPT !.stage = "upload"]]
  /\ UNCHANGED <<lockFile, queue, taken, pending, pc, cl, holders,
                 failedHeld>>
  /\ UNCHANGED notRemote

\* controllers::commits::create called with any commit on any branch, by a
\* client that is not following the push protocol
ForeignCreate(b, x) ==
  /\ x \notin srvCommits
  /\ srvCommits' = CommitsAfterCreate(x)
  /\ srvRefs' = RefsAfterCreate(b, x)
  /\ lastCreate' = [commit |-> x, ok |-> AddCommitToDbOk(x)]
  /\ UNCHANGED <<lockFile, queue, taken, pending, pc, push, cl,
                 holders, failedHeld>>
  /\ UNCHANGED notRemote

\* the push of c ends in an error; the lock file is left as it is
Failed(c) ==
  LET n == BranchNameNoSlashes(push[c].branch) IN
  /\ pc' = [pc EXCEPT ![c] = "idle"]
  /\ push' = [push EXCEPT ![c] = Ended("failed")]
  /\ failedHeld' = [failedHeld EXCEPT ![n] = @ \/ (lockFile[n] # 0 /\ c \in holders[n])]

\* controllers::commits::upload: the tree database and the objects of the
\* commit are unpacked when the commit is known, 404 otherwise
UploadDb(c) ==
  /\ pc[c] = "pushing" /\ push[c].stage = "upload"
  /\ IF Head(push[c].todo) \in srvCommits
       THEN /\ push' = [push EXCEPT ![c] = [@ EXCEPT !.stage = "complete"]]
            /\ UNCHANGED <<pc, failedHeld>>
       ELSE Failed(c)
  /\ UNCHANGED <<srvCommits, srvRefs, lockFile, queue, taken, pending,
                 cl, holders, lastCreate>>
  /\ UNCHANGED notRemote

\* controllers::commits::complete: a finalize task for the commit is pushed
\* onto the queue
Complete(c) ==
  /\ pc[c] = "pushing" /\ push[c].stage = "complete"
  /\ LET x == Head(push[c].todo)
         t == [commit |-> x, branch |-> push[c].branch] IN
     /\ queue' = Append(queue, t)
     /\ pending' = pending \cup {t}
     /\ push' = [push EXCEPT ![c] = [@ EXCEPT !.todo = Tail(@),
                                              !.stage = "post",
                                              !.completed = @ \cup {x}]]
  /\ UNCHANGED <<srvCommits, srvRefs, lockFile, taken, pc, cl,
                 holders, failedHeld, lastCreate>>
  /\ UNCHANGED notRemote

\* push step 4: the remote branch is set to the pushed head and unlocked
FinishPush(c) ==
  /\ pc[c] = "pushing" /\ push[c].stage = "post" /\ push[c].todo = <<>>
  /\ LET b == push[c].branch IN
     /\ srvRefs' = [srvRefs EXCEPT ![b] = push[c].head]
     /\ lockFile' = Unlocked(b)
     /\ holders' = HoldersAfterUnlock(b)
     /\ failedHeld' = FailedAfterUnlock(b)
  /\ pc' = [pc EXCEPT ![c] = "idle"]
  /\ push' = [push EXCEPT ![c] = Ended("ok")]
  /\ UNCHANGED <<srvCommits, queue, taken, pending, cl, lastCreate>>
  /\ UNCHANGED notRemote

\* a push that stops with an error anywhere between lock and unlock
PushFail(c) ==
  /\ pc[c] = "pushing"
  /\ Failed(c)
  /\ UNCHANGED <<srvCommits, srvRefs, lockFile, queue, taken, pending,
                 cl, holders, lastCreate>>
  /\ UNCHANGED notRemote

(* --------------------------- finalize queue ---------------------------- *)

\* run_redis_poller: LPOP takes the next task off the queue
WorkerPop ==
  /\ taken = NoTask /\ queue # <<>>
  /\ taken' = Head(queue)
  /\ queue' = Tail(queue)
  /\ UNCHANGED <<srvCommits, srvRefs, lockFile, pending, pc, push,
                 cl, holders, failedHeld, lastCreate>>
  /\ UNCHANGED notRemote

\* run_redis_poller: task.run() on the task taken; PostPushComplete ends by
\* releasing the lock of the task's branch
WorkerRun ==
  /\ taken # NoTask
  /\ lockFile' = Unlocked(taken.branch)
  /\ holders' = HoldersAfterUnlock(taken.branch)
  /\ failedHeld' = FailedAfterUnlock(taken.branch)
  /\ pending' = pending \ {taken}
  /\ taken' = NoTask
  /\ UNCHANGED <<srvCommits, srvRefs, queue, pc, push, cl, lastCreate>>
  /\ UNCHANGED notRemote

\* the server process dies while the task runs and is started again: the
\* poller comes back with nothing in hand
WorkerCrash ==
  /\ taken # NoTask
  /\ taken' = NoTask
  /\ UNCHANGED <<srvCommits, srvRefs, lockFile, queue, pending, pc,
                 push, cl, holders, failedHeld, lastCreate>>
  /\ UNCHANGED notRemote

\* an item of commit_queue that bincode cannot decode as PostPushComplete
BadItem == [commit |-> 0 - 1, branch |-> <<>>]
Deserializes(item) == item # BadItem

\* bytes that are no PostPushComplete are pushed onto commit_queue
EnqueueBadItem ==
  /\ BadItem \notin Range(queue)
  /\ queue' = Append(queue, BadItem)
  /\ UNCHANGED <<srvCommits, srvRefs, lockFile, taken, pending, pc, push,
                 cl, holders, failedHeld, lastCreate>>
  /\ UNCHANGED serverVars
  /\ UNCHANGED notServer

\* run_redis_poller while its task lives: LPOP of an item that deserializes
PollerPop ==
  /\ poller = "running"
  /\ queue # <<>> /\ Deserializes(Head(queue))
  /\ WorkerPop

\* run_redis_poller: LPOP of an item that does not deserialize; the unwrap
\* panics and the spawned task ends, the server goes on without a poller
PollerPanic ==
  /\ poller = "running"
  /\ taken = NoTask /\ queue # <<>> /\ ~Deserializes(Head(queue))
  /\ queue' = Tail(queue)
  /\ poller' = "dead"
  /\ UNCHANGED <<srvCommits, srvRefs, lockFile, taken, pending, pc, push,
                 cl, holders, failedHeld, lastCreate>>
  /\ UNCHANGED notServer

\* run_redis_poller while its task lives: task.run() on the task taken
PollerRun ==
  /\ poller = "running"
  /\ WorkerRun

(* --------------------------- hashing a file ---------------------------- *)

total_retries == 5
MaxAttempts == 8

NeverGivesUp(r) == FALSE

\* hash_file_contents_with_retry: `if retries > total_retries`
GivesUp(r) == r > total_retries

\* hash_file_contents_with_retry is called on a path
HashFileContentsWithRetry(p) ==
  /\ hashCall.state # "running"
  /\ hashCall' = [state |-> "running", path |-> p, hash |-> 0]
  /\ retries' = 0
  /\ timeout' = 1
  /\ UNCHANGED notRetry

\* one turn of the loop: hash_file_contents succeeds when the file is there
\* and can be read, and the hash is returned; otherwise the failure is
\* counted, the delay is doubled and slept, and past total_retries the error
\* is returned
HashAttempt(ioOk) ==
  /\ hashCall.state = "running"
  /\ IF wt[hashCall.path] # NoFile /\ ioOk
       THEN /\ hashCall' = [hashCall EXCEPT !.state = "ok",
                                            !.hash = wt[hashCall.path].hash]
            /\ UNCHANGED <<retries, timeout>>
       ELSE /\ retries < MaxAttempts
            /\ retries' = retries + 1
            /\ timeout' = timeout * 2
            /\ hashCall' = IF GivesUp(retries + 1)
                             THEN [hashCall EXCEPT !.state = "err"]
                             ELSE hashCall
  /\ UNCHANGED notRetry

HashLoop == \E ioOk \in BOOLEAN : HashAttempt(ioOk)

(* ------------------------- the clients' clones ------------------------- *)

\* command::commit in the clone of c: a new commit on top of its head
ClientCommit(c) ==
  /\ pc[c] = "idle"
  /\ NextCommit(c, cl[c].head) # 0
  /\ LET x == NextCommit(c, cl[c].head) IN
     cl' = [cl EXCEPT ![c] = [commits |-> @.commits \cup {x}, head |-> x]]
  /\ UNCHANGED <<srvCommits, srvRefs, lockFile, queue, taken, pending,
                 pc, push, holders, failedHeld, lastCreate>>
  /\ UNCHANGED notRemote

\* command::pull of branch b into the clone of c, followed, when the two
\* heads have diverged, by the merge commit the user makes
ClientPull(c, b) ==
  /\ pc[c] = "idle"
  /\ srvRefs[b] # 0
  /\ LET r == srvRefs[b]
         h == cl[c].head IN
     /\ r \notin Ancestors(h)
     /\ Ancestors(r) \subseteq srvCommits
     /\ IF h \in Ancestors(r)
          THEN cl' = [cl EXCEPT ![c] = [commits |-> @.commits \cup Ancestors(r),
                                        head |-> r]]
          ELSE /\ MergeCommit(h, r) # 0
               /\ cl' = [cl EXCEPT ![c] =
                           [commits |-> @.commits \cup Ancestors(r) \cup {MergeCommit(h, r)},
                            head |-> MergeCommit(h, r)]]
  /\ UNCHANGED <<srvCommits, srvRefs, lockFile, queue, taken, pending,
                 pc, push, holders, failedHeld, lastCreate>>
  /\ UNCHANGED notRemote

RemoteInit ==
  /\ srvCommits = {1}
  /\ srvRefs = [b \in SrvBranches |-> IF b = SrvMain THEN 1 ELSE 0]
  /\ lockFile = [n \in LockNames |-> 0]
  /\ queue = <<>>
  /\ taken = NoTask
  /\ pending = {}
  /\ pc = [c \in Clients |-> "idle"]
  /\ push = [c \in Clients |-> NoPush]
  /\ cl = [c \in Clients |-> [commits |-> {1}, head |-> 1]]
  /\ holders = [n \in LockNames |-> {}]
  /\ failedHeld = [n \in LockNames |-> FALSE]
  /\ lastCreate = [commit |-> 0, ok |-> TRUE]


(* =============================== clone ================================= *)

OriginBranches == {"main", "dev"}
\* the version files a commit's tree refers to
ObjectsOf(x) ==
  CASE x = 1 -> {1} [] x = 2 -> {2} [] x = 3 -> {1, 3} [] OTHER -> {2, 3}
ObjectsOfAll(S) == UNION {ObjectsOf(x) : x \in S}

OriginOf(m, d) ==
  [commits |-> Ancestors(m) \cup Ancestors(d),
   refs |-> [b \in OriginBranches |-> IF b = "main" THEN m ELSE d]]
Origins == {OriginOf(m, d) : m \in {1, 2, 4}, d \in {0, 3}}
NoOpts == [shallow |-> FALSE, all |-> FALSE, branch |-> ""]

WantedNothing == {}

\* the commits of the cloned branch
Wanted == Ancestors(origin.refs[opts.branch])

PullNothing(o) == "commit_objects"

\* LocalRepository::maybe_pull_entries: a shallow clone pulls the commit
\* objects only; any other clone pulls the entries, of every commit with
\* `all` and of the head commit without
PullMode(o) ==
  IF o.shallow THEN "commit_objects" ELSE IF o.all THEN "all" ELSE "head"

\* the version files the clone has to download
NeededObjects ==
  CASE PullMode(opts) = "commit_objects" -> {}
    [] PullMode(opts) = "all" -> ObjectsOfAll(Wanted)
    [] OTHER -> ObjectsOf(origin.refs[opts.branch])

\* LocalRepository::clone_repo up to the pull: the directory, the hidden
\* directory and the repository config are written
CloneRepo(shallow, all) ==
  /\ clonePc = "start"
  /\ opts' = [shallow |-> shallow, all |-> all, branch |-> DEFAULT_BRANCH_NAME]
  /\ clonePc' = "fetch"
  /\ UNCHANGED <<origin, clCommits, clTrees, clObjects, clHead, shallowFlag>>
  /\ UNCHANGED notClone

\* fetch: the tree KV of a commit of the branch is downloaded
FetchTree(x) ==
  /\ clonePc = "fetch"
  /\ x \in Wanted \ clTrees
  /\ clTrees' = clTrees \cup {x}
  /\ UNCHANGED <<origin, opts, clonePc, clCommits, clObjects, clHead, shallowFlag>>
  /\ UNCHANGED notClone

\* fetch: a commit is applied to the commits KV, after its parents and once
\* its tree KV is there
FetchCommit(x) ==
  /\ clonePc = "fetch"
  /\ x \in Wanted \ clCommits
  /\ x \in clTrees
  /\ CommitParents(x) \subseteq clCommits
  /\ clCommits' = clCommits \cup {x}
  /\ UNCHANGED <<origin, opts, clonePc, clTrees, clObjects, clHead, shallowFlag>>
  /\ UNCHANGED notClone

\* pull: a version file of the commits whose entries are pulled is downloaded
DownloadObject(h) ==
  /\ clonePc = "fetch"
  /\ Wanted \subseteq clCommits
  /\ h \in NeededObjects \ clObjects
  /\ clObjects' = clObjects \cup {h}
  /\ UNCHANGED <<origin, opts, clonePc, clCommits, clTrees, clHead, shallowFlag>>
  /\ UNCHANGED notClone

CommitsWithPartial(kv, x) == kv \cup {x}

\* the commits KV after a cancel that interrupts the work on commit x: a
\* commit that has not reached the end of its finalisation is not inserted
CommitsAfterCancel(kv, x) == kv

\* the pull is cancelled while commit x of the branch is being fetched or
\* its files are being downloaded
CancelPull(x) ==
  /\ clonePc = "fetch"
  /\ x \in Wanted
  /\ clCommits' = CommitsAfterCancel(clCommits, x)
  /\ clonePc' = "cancelled"
  /\ UNCHANGED <<origin, opts, clTrees, clObjects, clHead, shallowFlag>>
  /\ UNCHANGED notClone

\* LocalRepository::maybe_pull_entries returns: the branch and HEAD are set
\* (should_update_head), and a shallow clone writes its flag
PullDone ==
  /\ clonePc = "fetch"
  /\ Wanted \subseteq clCommits
  /\ NeededObjects \subseteq clObjects
  /\ clHead' = origin.refs[opts.branch]
  /\ shallowFlag' = opts.shallow
  /\ clonePc' = IF opts.all THEN "branches" ELSE "done"
  /\ UNCHANGED <<origin, opts, clCommits, clTrees, clObjects>>
  /\ UNCHANGED notClone

\* LocalRepository::clone_repo with `all`: the commit objects of every other
\* remote branch are pulled, HEAD is left alone
CloneOtherBranches ==
  /\ clonePc = "branches"
  /\ LET others == UNION {Ancestors(origin.refs[b]) : b \in OriginBranches \ {opts.branch}} IN
     /\ clCommits' = clCommits \cup others
     /\ clTrees' = clTrees \cup others
  /\ clonePc' = "done"
  /\ UNCHANGED <<origin, opts, clObjects, clHead, shallowFlag>>
  /\ UNCHANGED notClone

\* command::pull in the finished clone: the files of the head commit are
\* downloaded and the clone is no longer shallow
Pull ==
  /\ clonePc = "done"
  /\ shallowFlag \/ ~(ObjectsOf(clHead) \subseteq clObjects)
  /\ clObjects' = clObjects \cup ObjectsOf(clHead)
  /\ shallowFlag' = FALSE
  /\ UNCHANGED <<origin, opts, clonePc, clCommits, clTrees, clHead>>
  /\ UNCHANGED notClone

NeverRefuses(flag) == FALSE

\* command::status and command::add in a repository whose shallow flag is
\* set: both refuse with an error
ShallowRefuses(flag) == flag

\* command::status in the clone
Status ==
  /\ clonePc = "done"
  /\ last' = Outcome("status", ~ShallowRefuses(shallowFlag), FALSE)
  /\ UNCHANGED <<wt, staged, stagedDirs, conflicts, commits, refs, head, clock>>
  /\ UNCHANGED mergeVars
  /\ UNCHANGED notLocal

\* command::add of a file in the clone
Add(p) ==
  /\ clonePc = "done"
  /\ IF ShallowRefuses(shallowFlag)
       THEN /\ last' = Outcome("add", FALSE, FALSE)
            /\ UNCHANGED <<wt, staged, stagedDirs, conflicts, commits, refs, head, clock>>
            /\ UNCHANGED mergeVars
            /\ UNCHANGED notLocal
       ELSE AddPath(p)

CloneIdle ==
  /\ origin = OriginOf(1, 0)
  /\ opts = NoOpts
  /\ clonePc = "start"
  /\ clCommits = {}
  /\ clTrees = {}
  /\ clObjects = {}
  /\ clHead = 0
  /\ shallowFlag = FALSE

CloneInit ==
  /\ origin \in Origins
  /\ opts = NoOpts
  /\ clonePc = "start"
  /\ clCommits = {}
  /\ clTrees = {}
  /\ clObjects = {}
  /\ clHead = 0
  /\ shallowFlag = FALSE

(* ===================== staged rows of a data frame ===================== *)

MaxRow == 2
Rows == 1..MaxRow
DfContents == SUBSET Rows

\* the content hash of a tabular file: distinct row sets, distinct hashes
RECURSIVE ContentHash(_)
ContentHash(c) ==
  IF c = {} THEN 0
  ELSE LET r == CHOOSE x \in c : TRUE IN 2^(r - 1) + ContentHash(c \ {r})

DfHashes == {ContentHash(c) : c \in DfContents}
NoDfEntry == 0 - 1
NoVersion == [present |-> FALSE, rows |-> {}]
NoTable == [present |-> FALSE, rows |-> {}]
StoredFile(c) == [present |-> TRUE, rows |-> c]

DfIdle ==
  /\ versionFiles = [h \in DfHashes |-> NoVersion]
  /\ dfTable = NoTable
  /\ dfEntry = NoDfEntry

\* main: the poller task is spawned when the server starts
ServerInit == poller = "running"

\* no call of hash_file_contents_with_retry has been made
NoCall == [state |-> "idle", path |-> <<>>, hash |-> 0]
RetryIdle ==
  /\ retries = 0
  /\ timeout = 1
  /\ hashCall = NoCall

(* ------------------------- browsing a commit --------------------------- *)
\* the files a browsed commit can hold, in the order its readers list them
BrowseOrder == << <<"d1", "x">>, <<"d1", "e", "w">>, <<"d2", "z">> >>
BrowseDirOrder == << <<>>, <<"d1">>, <<"d1", "e">>, <<"d2">> >>
BrowseFiles == {BrowseOrder[i] : i \in 1..Len(BrowseOrder)}
BrowseDirs == {BrowseDirOrder[i] : i \in 1..Len(BrowseDirOrder)}
MaxPage == 3
MaxPageSize == 2
\* the commit whose tree is browsed is the newest one; a commit's timestamp
\* is the time it was made, and commit ids are handed out in that order
BrowsedCommit == MaxCommits
CommitTimestamp(i) == i
Trees == [BrowseFiles -> 0..MaxCommits]

\* Path::starts_with: dir is path or lies below it
StartsWith(dir, path) == Len(path) <= Len(dir) /\ SubSeq(dir, 1, Len(path)) = path

\* CommitEntryReader::list_dirs: the committed dirs, the root among them
ListDirs == {d \in BrowseDirs : \E f \in BrowseFiles : tree[f] # 0 /\ StartsWith(Parent(f), d)}
\* CommitDirEntryReader::list_entries: the files directly in dir
ListEntries(dir) == SelectSeq(BrowseOrder, LAMBDA f : tree[f] # 0 /\ Parent(f) = dir)
NumEntries(dir) == Len(ListEntries(dir))

\* compute_latest_commit: the loop over the entries of one dir
RECURSIVE LatestOverEntries(_, _)
LatestOverEntries(latest_commit, entries) ==
  IF entries = <<>> THEN latest_commit
  ELSE LatestOverEntries(
         IF CommitTimestamp(latest_commit) > CommitTimestamp(tree[Head(entries)])
         THEN tree[Head(entries)] ELSE latest_commit,
         Tail(entries))

\* compute_latest_commit: the loop over the committed dirs
RECURSIVE LatestOverDirs(_, _, _)
LatestOverDirs(latest_commit, dirs, path) ==
  IF dirs = <<>> THEN latest_commit
  ELSE LatestOverDirs(
         IF StartsWith(Head(dirs), path)
         THEN LatestOverEntries(latest_commit, ListEntries(Head(dirs)))
         ELSE latest_commit,
         Tail(dirs), path)

ComputeLatestCommit(path) ==
  LatestOverDirs(BrowsedCommit, SelectSeq(BrowseDirOrder, LAMBDA d : d \in ListDirs), path)

\* the commits that last touched a file of the subtree of path
SubtreeCommits(path) ==
  {tree[f] : f \in {g \in BrowseFiles : tree[g] # 0 /\ StartsWith(Parent(g), path)}}
NewestCommit(path) ==
  CHOOSE c \in SubtreeCommits(path) :
    \A o \in SubtreeCommits(path) : CommitTimestamp(o) <= CommitTimestamp(c)

NoMeta == [state |-> "idle", dir |-> <<>>, latest_commit |-> 0, cached |-> FALSE]
NoListing == [state |-> "idle", directory |-> <<>>, page_number |-> 0, page_size |-> 0,
              entries |-> <<>>, total_pages |-> 0, total_entries |-> 0]

BrowseIdle ==
  /\ tree = [f \in BrowseFiles |-> 0]
  /\ dirCache = [d \in BrowseDirs |-> 0]
  /\ dirMeta = NoMeta
  /\ listing = NoListing

\* commit finalise: the cache file of every committed dir is written
CacheLatestCommits ==
  /\ \E d \in ListDirs : dirCache[d] = 0
  /\ dirCache' = [d \in BrowseDirs |-> IF d \in ListDirs THEN NewestCommit(d) ELSE 0]
  /\ UNCHANGED <<tree, dirMeta, listing>>
  /\ UNCHANGED notBrowse

\* meta_entry_from_dir: the cache file if it can be read, else compute_latest_commit
LatestCommitOfDir(d) ==
  IF dirCache[d] # 0 THEN dirCache[d] ELSE ComputeLatestCommit(d)

MetaEntryFromDir(d) ==
  /\ d \in ListDirs
  /\ d # RootDir
  /\ dirMeta' = [state |-> "done", dir |-> d,
                 latest_commit |-> LatestCommitOfDir(d), cached |-> dirCache[d] # 0]
  /\ UNCHANGED <<tree, dirCache, listing>>
  /\ UNCHANGED notBrowse

\* list_entry_page_with_offset
StartIdx(page, page_size) == (IF page = 0 THEN 0 ELSE page - 1) * page_size
ListEntryPageWithOffset(dir, page, page_size, offset) ==
  LET start_idx == IF StartIdx(page, page_size) >= offset
                   THEN StartIdx(page, page_size) - offset
                   ELSE StartIdx(page, page_size)
      entries == ListEntries(dir)
      last_idx == IF start_idx + page_size < Len(entries)
                  THEN start_idx + page_size ELSE Len(entries)
  IN SubSeq(entries, start_idx + 1, last_idx)

\* list_directory: the sub-directories of directory, then the page of its files
DirPaths(directory) ==
  SelectSeq(BrowseDirOrder,
            LAMBDA d : d \in ListDirs /\ d # RootDir /\ Parent(d) = directory)

ListDirectoryEntries(directory, page, page_size) ==
  LET dir_paths == DirPaths(directory)
      file_paths == ListEntryPageWithOffset(directory, page, page_size, Len(dir_paths))
      entries == IF Len(dir_paths) < StartIdx(page, page_size)
                 THEN file_paths ELSE dir_paths \o file_paths
  IN IF Len(entries) >= page_size THEN SubSeq(entries, 1, page_size) ELSE entries

TotalPages(total, page_size) == (total + page_size - 1) \div page_size

ListDirectory(directory, page, page_size) ==
  /\ directory \in ListDirs
  /\ listing' = [state |-> "done", directory |-> directory,
                 page_number |-> page, page_size |-> page_size,
                 entries |-> ListDirectoryEntries(directory, page, page_size),
                 total_pages |->
                   TotalPages(NumEntries(directory) + Len(DirPaths(directory)), page_size),
                 total_entries |-> NumEntries(directory) + Len(DirPaths(directory))]
  /\ UNCHANGED <<tree, dirCache, dirMeta>>
  /\ UNCHANGED notBrowse

\* commit step 2: the working-tree bytes are copied under their hash
CommitDataFrame(c) ==
  /\ versionFiles' =
       IF versionFiles[ContentHash(c)].present THEN versionFiles
       ELSE [versionFiles EXCEPT ![ContentHash(c)] = StoredFile(c)]
  /\ dfEntry' = ContentHash(c)
  /\ UNCHANGED dfTable
  /\ UNCHANGED notDf

\* index_dataset: drop the table if there is one, load the version file
IndexDataset ==
  /\ dfEntry # NoDfEntry
  /\ versionFiles[dfEntry].present
  /\ dfTable' = StoredFile(versionFiles[dfEntry].rows)
  /\ UNCHANGED <<versionFiles, dfEntry>>
  /\ UNCHANGED notDf

\* unindex_df: drop the table
UnindexDf ==
  /\ dfTable.present
  /\ dfTable' = NoTable
  /\ UNCHANGED <<versionFiles, dfEntry>>
  /\ UNCHANGED notDf

\* staged row CRUD: append one row to the staged table
AppendRow(r) ==
  /\ dfTable.present
  /\ r \notin dfTable.rows
  /\ dfTable' = StoredFile(dfTable.rows \cup {r})
  /\ UNCHANGED <<versionFiles, dfEntry>>
  /\ UNCHANGED notDf

\* staged row CRUD: delete one row of the staged table by id
DeleteRow(r) ==
  /\ dfTable.present
  /\ r \in dfTable.rows
  /\ dfTable' = StoredFile(dfTable.rows \ {r})
  /\ UNCHANGED <<versionFiles, dfEntry>>
  /\ UNCHANGED notDf

\* extract_dataset_to_versions_dir: export the staged table to the version
\* path of the committed entry
ExtractDatasetToVersionsDir ==
  /\ dfEntry # NoDfEntry
  /\ versionFiles[dfEntry].present
  /\ dfTable.present
  /\ versionFiles' = [versionFiles EXCEPT ![dfEntry] = StoredFile(dfTable.rows)]
  /\ UNCHANGED <<dfTable, dfEntry>>
  /\ UNCHANGED notDf

(* --------------------------- specifications ---------------------------- *)

Init == LocalInit /\ RemoteInit /\ CloneIdle /\ DfIdle /\ ServerInit /\ RetryIdle /\ BrowseIdle

\* staging and committing on one branch
StagingNext ==
  \/ \E p \in Paths, h \in Hashes : WriteFile(p, h)
  \/ \E p \in Paths : RemoveFile(p)
  \/ \E p \in Paths : AddPath(p)
  \/ \E d \in Dirs : AddDirectory(d)
  \/ \E r \in 0..2 : Commit(r)

SpecStaging == Init /\ [][StagingNext]_vars

\* branching, checkout and merge, with the edits confined to one file
BranchingPaths == {<<"a.txt">>}
BranchingNext ==
  \/ \E p \in BranchingPaths, h \in Hashes : WriteFile(p, h)
  \/ \E p \in BranchingPaths : AddPath(p)
  \/ \E r \in 0..2 : Commit(r)
  \/ \E v \in CheckoutValues, ioOk \in BOOLEAN :
       \E done \in (IF ioOk THEN {Paths} ELSE SUBSET BranchingPaths) :
         Checkout(v, ioOk, done)
  \/ \E b \in LocalBranches, done \in SUBSET BranchingPaths : Merge(b, done)
  \/ \E n \in LocalBranches : CreateCheckout(n)

SpecBranching == Init /\ [][BranchingNext]_vars

\* creating, checking out and deleting branches
DeletingNext ==
  \/ \E h \in Hashes : WriteFile(<<"a.txt">>, h)
  \/ AddPath(<<"a.txt">>)
  \/ Commit(2)
  \/ \E v \in CheckoutValues : Checkout(v, TRUE, Paths)
  \/ \E n \in LocalBranches : CreateCheckout(n)
  \/ \E b \in LocalBranches : Delete(b)
  \/ \E b \in LocalBranches : ForceDelete(b)

SpecDeleting == Init /\ [][DeletingNext]_vars

\* removing and restoring a committed directory
RmNext ==
  \/ \E p \in Paths, h \in Hashes : WriteFile(p, h)
  \/ \E p \in Paths : AddPath(p)
  \/ \E d \in Dirs : AddDirectory(d)
  \/ Commit(2)
  \/ \E d \in Dirs \ {RootDir} : Rm(d)
  \/ \E d \in Dirs \ {RootDir} : RestoreStaged(d)
  \/ \E d \in Dirs \ {RootDir} : Restore(d)

SpecRm == Init /\ [][RmNext]_vars

\* resolving a recorded merge conflict and committing the merge
MergeStart ==
  /\ \E p \in Paths, inBase \in BOOLEAN : ConflictRecorded(p, inBase)
  /\ RemoteInit
  /\ CloneIdle
  /\ DfIdle /\ ServerInit /\ RetryIdle /\ BrowseIdle
MergingNext ==
  \/ \E p \in Paths : CheckoutOurs(p)
  \/ \E p \in Paths : CheckoutTheirs(p)
  \/ \E p \in Paths, h \in Hashes : WriteFile(p, h)
  \/ \E p \in Paths : RemoveFile(p)
  \/ \E p \in Paths : AddPath(p)
  \/ \E r \in 0..2 : Commit(r)
  \/ \E b \in LocalBranches : Merge(b, {})

SpecMerging == MergeStart /\ [][MergingNext]_vars

\* two clients pushing to one server
RemoteNext ==
  \/ \E c \in Clients, b \in SrvBranches : LockCheck(c, b)
  \/ \E c \in Clients : LockWrite(c)
  \/ \E b \in SrvBranches : Unlock(b)
  \/ \E c \in Clients : PostCommit(c)
  \/ \E b \in SrvBranches, x \in CommitIds : ForeignCreate(b, x)
  \/ \E c \in Clients : UploadDb(c)
  \/ \E c \in Clients : Complete(c)
  \/ \E c \in Clients : FinishPush(c)
  \/ \E c \in Clients : PushFail(c)
  \/ WorkerPop
  \/ WorkerRun
  \/ WorkerCrash
  \/ \E c \in Clients : ClientCommit(c)
  \/ \E c \in Clients, b \in SrvBranches : ClientPull(c, b)

SpecRemote == Init /\ [][RemoteNext]_vars

\* merging a branch that is one commit ahead of the current branch
OneSidedStart ==
  /\ \E base \in [Paths -> {NoFile, [hash |-> 1, mtime |-> 1]}],
        theirs \in [Paths -> {NoFile} \cup [hash : Hashes, mtime : {1}]] :
       /\ wt = base
       /\ commits = << [parents |-> <<>>, entries |-> base],
                       [parents |-> <<1>>, entries |-> theirs] >>
  /\ staged = [q \in Paths |-> NoEntry]
  /\ stagedDirs = {}
  /\ conflicts = {}
  /\ refs = [b \in LocalBranches |-> IF b = DEFAULT_BRANCH_NAME THEN 1 ELSE 2]
  /\ head = BranchValue(DEFAULT_BRANCH_NAME)
  /\ last = Outcome("checkout", TRUE, FALSE)
  /\ clock = 1
  /\ mergeHead = 0
  /\ origHead = 0
  /\ RemoteInit
  /\ CloneIdle
  /\ DfIdle /\ ServerInit /\ RetryIdle /\ BrowseIdle
OneSidedNext ==
  \/ \E b \in LocalBranches, done \in SUBSET Paths : Merge(b, done)
  \/ \E p \in Paths, h \in Hashes : WriteFile(p, h)
  \/ \E p \in Paths : RemoveFile(p)
  \/ \E p \in Paths : AddPath(p)
  \/ \E r \in 0..2 : Commit(r)

SpecOneSided == OneSidedStart /\ [][OneSidedNext]_vars

\* locking and unlocking branches whose names differ only in '/' and '-'
SlashBranches == {<<"a", "/", "b">>, <<"a", "-", "b">>, SrvMain}
LocksStart ==
  /\ LocalInit
  /\ CloneIdle
  /\ DfIdle /\ ServerInit /\ RetryIdle /\ BrowseIdle
  /\ srvCommits = {1}
  /\ srvRefs = [b \in SlashBranches |-> 1]
  /\ lockFile = [n \in {BranchNameNoSlashes(b) : b \in SlashBranches} |-> 0]
  /\ queue = <<>>
  /\ taken = NoTask
  /\ pending = {}
  /\ pc = [c \in Clients |-> "idle"]
  /\ push = [c \in Clients |-> NoPush]
  /\ cl = [c \in Clients |-> [commits |-> {1}, head |-> 1]]
  /\ holders = [n \in {BranchNameNoSlashes(b) : b \in SlashBranches} |-> {}]
  /\ failedHeld = [n \in {BranchNameNoSlashes(b) : b \in SlashBranches} |-> FALSE]
  /\ lastCreate = [commit |-> 0, ok |-> TRUE]
LocksNext ==
  \/ \E c \in Clients, b \in SlashBranches : LockCheck(c, b)
  \/ \E c \in Clients : LockWrite(c)
  \/ \E b \in SlashBranches : Unlock(b)
  \/ \E c \in Clients : FinishPush(c)
  \/ \E c \in Clients : PushFail(c)

SpecLocks == LocksStart /\ [][LocksNext]_vars

\* pushes that complete commits, items that do not decode, and the poller
\* task, which pops and runs for as long as it lives
PollerNext ==
  \/ \E c \in Clients, b \in SrvBranches : LockCheck(c, b)
  \/ \E c \in Clients : LockWrite(c)
  \/ \E c \in Clients : PostCommit(c)
  \/ \E c \in Clients : UploadDb(c)
  \/ \E c \in Clients : Complete(c)
  \/ \E c \in Clients : FinishPush(c)
  \/ \E c \in Clients : ClientCommit(c)
  \/ EnqueueBadItem
  \/ PollerPop
  \/ PollerPanic
  \/ PollerRun

SpecPoller ==
  /\ Init /\ [][PollerNext]_vars
  /\ WF_vars(PollerPop) /\ WF_vars(PollerPanic) /\ WF_vars(PollerRun)

\* hashing a file that is being written and removed meanwhile; the loop of
\* hash_file_contents_with_retry goes on until it returns
RetryNext ==
  \/ \E h \in Hashes : WriteFile(<<"a.txt">>, h)
  \/ RemoveFile(<<"a.txt">>)
  \/ \E p \in Paths : HashFileContentsWithRetry(p)
  \/ HashLoop

SpecRetry == Init /\ [][RetryNext]_vars /\ WF_vars(HashLoop)

\* browsing: any tree the newest commit can hold, no cache file written yet
BrowseStart ==
  /\ LocalInit /\ RemoteInit /\ CloneIdle /\ DfIdle /\ ServerInit /\ RetryIdle
  /\ tree \in Trees
  /\ dirCache = [d \in BrowseDirs |-> 0]
  /\ dirMeta = NoMeta
  /\ listing = NoListing

BrowseNext ==
  \/ CacheLatestCommits
  \/ \E d \in BrowseDirs : MetaEntryFromDir(d)
  \/ \E d \in BrowseDirs, page \in 1..MaxPage, page_size \in 1..MaxPageSize :
       ListDirectory(d, page, page_size)

SpecBrowse == BrowseStart /\ [][BrowseNext]_vars

\* the same, with the poller loop of the server running for as long as the
\* server process lives: it pops whenever the queue holds a task and runs
\* the task it has popped
SpecRemoteFair ==
  Init /\ [][RemoteNext]_vars /\ WF_vars(WorkerPop) /\ WF_vars(WorkerRun)

\* cloning one of a few remote repositories
CloneNext ==
  \/ \E sh \in BOOLEAN, al \in BOOLEAN : CloneRepo(sh, al)
  \/ \E x \in CommitIds : FetchTree(x)
  \/ \E x \in CommitIds : FetchCommit(x)
  \/ \E h \in ObjectsOfAll(CommitIds) : DownloadObject(h)
  \/ \E x \in CommitIds : CancelPull(x)
  \/ PullDone
  \/ CloneOtherBranches
  \/ Pull

CloneStart == LocalInit /\ RemoteInit /\ CloneInit /\ DfIdle /\ ServerInit /\ RetryIdle /\ BrowseIdle
SpecClone == CloneStart /\ [][CloneNext]_vars


\* working in a clone: status and add after the clone has finished
ShallowNext ==
  \/ CloneNext
  \/ \E h \in Hashes : WriteFile(<<"a.txt">>, h)
  \/ Status
  \/ Add(<<"a.txt">>)

SpecShallow == CloneStart /\ [][ShallowNext]_vars

\* staging rows of a committed data frame and exporting them
DataFrameNext ==
  \/ \E c \in DfContents : CommitDataFrame(c)
  \/ IndexDataset
  \/ UnindexDf
  \/ \E r \in Rows : AppendRow(r)
  \/ \E r \in Rows : DeleteRow(r)
  \/ ExtractDatasetToVersionsDir
SpecDataFrame == Init /\ [][DataFrameNext]_vars

(* ------------------------------- claims -------------------------------- *)

\* C1: after add operations covering every new or changed path and a
\* successful commit, status is clean (no staged, modified, removed or
\* untracked entries).
C1_StatusCleanAfterCommit ==
  (last.op = "commit" /\ last.ok /\ last.covered) => IsClean(ComputeStagedData)

\* C2: a commit, checkout or merge that fails before its final ref update
\* leaves HEAD, and the commit HEAD resolves to, exactly as they were.
C2_FailureLeavesHead ==
  [][ (last'.op \in {"commit", "checkout", "merge"} /\ ~last'.ok)
        => (head' = head /\ HeadCommitId' = HeadCommitId) ]_localVars

\* a checkout of another branch failed after it had already rewritten a
\* file of the working tree to that branch's version
C2_Witness ==
  /\ last.op = "checkout" /\ ~last.ok
  /\ \E b \in LocalBranches, p \in Paths :
       /\ refs[b] # 0 /\ refs[b] # HeadCommitId /\ b # CurrentBranch
       /\ wt[p] # NoFile
       /\ wt[p] = commits[refs[b]].entries[p]
       /\ wt[p] # HeadEntries[p]

\* C3: at most one client holds the lock of a branch at any time: of the
\* lock requests made on a branch, only one is granted until it is unlocked.
C3_AtMostOneHolder ==
  \A n \in LockNames : Cardinality(holders[n]) <= 1

\* C4: while a push is posting a commit's metadata or uploading its tree
\* database and objects, the remote branch ref does not move.
C4_RefUnchangedUntilComplete ==
  [][ \A c \in Clients :
        (pc[c] = "pushing" /\ push[c].stage \in {"post", "upload"}
           /\ push'[c].stage \in {"upload", "complete"}
           /\ push'[c].stage # push[c].stage)
        => srvRefs' = srvRefs ]_vars

\* C5 (as stated): every commit in the local commits KV has its tree KV, all
\* of its parents and every object it references present locally.
C5_NoDanglingReference ==
  \A x \in clCommits :
    /\ x \in clTrees
    /\ CommitParents(x) \subseteq clCommits
    /\ ObjectsOf(x) \subseteq clObjects

\* C5 (amended): every commit in the local commits KV has its tree KV and
\* all of its parents present locally; the objects a commit references are
\* present once the clone has finished and is not shallow, for the head
\* commit, and for every commit of the cloned branch when the clone was made
\* with `all` and without `shallow`.
C5_CommitsCompleteUnlessShallow ==
  /\ \A x \in clCommits : x \in clTrees /\ CommitParents(x) \subseteq clCommits
  /\ (clonePc \in {"branches", "done"} /\ ~shallowFlag)
       => /\ ObjectsOf(clHead) \subseteq clObjects
          /\ (opts.all /\ ~opts.shallow)
               => ObjectsOfAll(Ancestors(clHead)) \subseteq clObjects

\* a finished clone that is not shallow, whose head has a parent, and a
\* commit of which has an object that was not downloaded
C5_Witness ==
  /\ clonePc = "done" /\ ~shallowFlag /\ ~opts.shallow
  /\ CommitParents(clHead) # {}
  /\ ObjectsOf(clHead) \subseteq clObjects
  /\ \E x \in clCommits : ~(ObjectsOf(x) \subseteq clObjects)

\* C6: within one push every commit is sent after its parents: when a
\* pushing client posts a commit, all the parents of that commit are already
\* on the remote, and the remote records the commit.
C6_ParentsSentFirst ==
  [][ \A c \in Clients :
        (pc[c] = "pushing" /\ push[c].stage = "post" /\ push'[c].stage = "upload")
        => /\ CommitParents(Head(push[c].todo)) \subseteq srvCommits
           /\ srvCommits' = srvCommits \cup {Head(push[c].todo)} ]_vars

\* a push that has sent a commit and, before it, a parent of that commit
C6_Witness ==
  \E c \in Clients :
    /\ pc[c] = "pushing"
    /\ \E x \in push[c].completed, y \in push[c].completed : y \in CommitParents(x)

C9_FailedPushKeepsLock ==
  [][ \A c \in Clients :
        (pc[c] = "lock_checked" /\ pc'[c] = "pushing")
        => ~failedHeld[BranchNameNoSlashes(push[c].branch)] ]_vars

\* C10: a finalize task that no worker has run to the end is on the queue.
C10_TaskStaysQueued ==
  \A t \in pending : t \in Range(queue)

\* C11: a merge of a branch on which a path has another content hash than
\* on the current branch succeeds, and status then reports exactly those
\* paths as merge conflicts.
C11_ConflictingMergeRecorded ==
  [][ \A b \in LocalBranches :
        (/\ refs[b] # 0 /\ CommitIdExists(refs[b]) /\ CommitIdExists(HeadCommitId)
         /\ MergeConflicting(commits[refs[b]].entries) # {}
         /\ \E done \in SUBSET Paths : Merge(b, done))
        => /\ last'.ok
           /\ ComputeStagedData'.merge_conflicts = MergeConflicting(commits[refs[b]].entries)
    ]_vars

\* C12: a commit has two parents exactly when it is created while a merge
\* is in progress, and its parents are then the HEAD commit before the merge
\* and the MERGE_HEAD commit, in that order.
C12_TwoParentsIffMerge ==
  [][ Len(commits') > Len(commits) =>
        LET c == commits'[Len(commits')] IN
        /\ (Len(c.parents) = 2) <=> (mergeHead # 0)
        /\ Len(c.parents) \in {1, 2}
        /\ mergeHead # 0 => c.parents = <<origHead, mergeHead>> /\ origHead = HeadCommitId
    ]_vars

\* the merge of the recorded conflict has been committed on the branch, and
\* the repository also holds commits with one parent
C12_Witness ==
  /\ mergeHead = 0
  /\ CommitIdExists(refs[DEFAULT_BRANCH_NAME])
  /\ commits[refs[DEFAULT_BRANCH_NAME]].parents = <<2, 3>>
  /\ \E i \in 1..Len(commits) : Len(commits[i].parents) = 1

\* C13: while a conflict is recorded on a path, checkout --ours makes the
\* working-tree file equal to the path's version in the HEAD commit from before
\* the merge (commit 2 of ConflictRecorded) and checkout --theirs to its
\* version in the merged commit (commit 3); with no conflict recorded on the
\* path both fail with CouldNotFindMergeConflict and leave the file alone.
C13_OursTheirsRestore ==
  [][ \A p \in Paths :
        /\ CheckoutOurs(p) =>
             IF p \in conflicts
               THEN last'.ok /\ wt'[p] = commits[2].entries[p]
               ELSE last' = CouldNotFindMergeConflict("checkout_ours") /\ wt' = wt
        /\ CheckoutTheirs(p) =>
             IF p \in conflicts
               THEN last'.ok /\ wt'[p] = commits[3].entries[p]
               ELSE last' = CouldNotFindMergeConflict("checkout_theirs") /\ wt' = wt
    ]_vars

\* theirs has just been taken for a conflicting path whose two sides differ
C13_Witness ==
  /\ last = Outcome("checkout_theirs", TRUE, FALSE)
  /\ \E p \in conflicts :
       /\ wt[p] = commits[3].entries[p]
       /\ wt[p] # commits[2].entries[p]

\* C14: when the HEAD commit is an ancestor of the merged branch's commit,
\* merge moves the current branch ref to that commit and creates no commit.
C14_FastForwardMovesRef ==
  [][ \A b \in LocalBranches :
        (/\ CurrentBranch # ""
         /\ CommitIdExists(refs[b])
         /\ HeadCommitId # refs[b]
         /\ HeadCommitId \in HistoryFromCommitId(refs[b])
         /\ \E done \in SUBSET Paths : Merge(b, done))
        => /\ refs'[CurrentBranch] = refs[b]
           /\ commits' = commits
    ]_vars

C16_CheckoutCurrentIsNoOp ==
  [][ \A v \in CheckoutValues :
        (/\ v = head
         /\ \E ioOk \in BOOLEAN, done \in SUBSET Paths : Checkout(v, ioOk, done))
        => /\ head' = head
           /\ refs' = refs
           /\ wt' = wt
    ]_vars

\* a checkout has succeeded and a tracked file modified on disk is still
\* there unstaged: the checkout was one of the branch already checked out
C16_Witness ==
  /\ last = Outcome("checkout", TRUE, FALSE)
  /\ head.kind = "branch"
  /\ UncommittedChanges # {}

\* C17: a checkout of another branch or commit while a file of the HEAD
\* commit is modified on disk and not staged fails, leaves every file of the
\* working tree as it was and does not move HEAD.
C17_UncommittedChangesAbort ==
  [][ \A v \in CheckoutValues :
        (/\ v # head
         /\ \E p \in Paths : /\ HeadEntries[p] # NoFile
                             /\ staged[p] = NoEntry
                             /\ wt[p] # NoFile
                             /\ wt[p].hash # HeadEntries[p].hash
         /\ \E ioOk \in BOOLEAN, done \in SUBSET Paths : Checkout(v, ioOk, done))
        => /\ ~last'.ok
           /\ wt' = wt
           /\ head' = head
    ]_vars

\* a checkout of an existing other branch has failed, and the modified
\* file, which that branch holds in another version, is still as modified
C17_Witness ==
  /\ last = Outcome("checkout", FALSE, FALSE)
  /\ \E b \in LocalBranches, p \in Paths :
       /\ b # CurrentBranch
       /\ CommitIdExists(refs[b])
       /\ HeadEntries[p] # NoFile /\ staged[p] = NoEntry /\ wt[p] # NoFile
       /\ wt[p].hash # HeadEntries[p].hash
       /\ commits[refs[b]].entries[p] # HeadEntries[p]
       /\ commits[refs[b]].entries[p] # wt[p]

C20_LockedHeadIsLatestSynced ==
  [][ \A b \in SrvBranches :
        /\ ~IsLocked(b)' => LatestSyncedCommit(b)' = srvRefs'[b]
        /\ (~IsLocked(b) /\ IsLocked(b)') => LatestSyncedCommit(b)' = srvRefs[b]
        /\ (IsLocked(b) /\ IsLocked(b)') => LatestSyncedCommit(b)' = LatestSyncedCommit(b)
    ]_vars

C24_RmRestoreDirectory ==
  [][ \A d \in Dirs \ {RootDir} :
        LET S == {p \in Paths : IsUnder(p, d) /\ HeadEntries[p] # NoFile} IN
        /\ (Rm(d) /\ S # {} /\ \A p \in S : wt[p] = HeadEntries[p] /\ staged[p] = NoEntry)
             => /\ \A p \in S : /\ staged'[p].status = "Removed"
                                /\ ComputeStagedData'.added_files[p] = 1
                /\ \A p \in Paths : IsUnder(p, d) => wt'[p] = NoFile
        /\ (RestoreStaged(d) /\ S # {}
              /\ \A p \in S : wt[p] = NoFile /\ staged[p].status = "Removed")
             => /\ \A p \in S : ComputeStagedData'.added_files[p] = 0
                /\ ComputeStagedData'.removed_files = S
        /\ (Restore(d) /\ S # {} /\ \A p \in S : wt[p] = NoFile)
             => \A p \in S : wt'[p].hash = HeadEntries[p].hash
    ]_vars

\* C25: the object store is write-once per hash: no step replaces the
\* version file stored under a hash by a file with different content.
C25_VersionFileWriteOnce ==
  [][ \A h \in DfHashes :
        versionFiles[h].present => versionFiles'[h] = versionFiles[h]
    ]_vars

\* C26: after a merge that finds a path whose hash differs between HEAD and
\* the merged branch, MERGE_HEAD holds the commit of the merged branch,
\* ORIG_HEAD holds the HEAD commit from before the merge, and the
\* working-tree file of every conflicting path is left as it was.
C26_ConflictingMergeHeads ==
  [][ \A b \in LocalBranches :
        (/\ refs[b] # 0 /\ CommitIdExists(refs[b]) /\ CommitIdExists(HeadCommitId)
         /\ MergeConflicting(commits[refs[b]].entries) # {}
         /\ \E done \in SUBSET Paths : Merge(b, done))
        => /\ mergeHead' = refs[b]
           /\ origHead' = HeadCommitId
           /\ \A p \in MergeConflicting(commits[refs[b]].entries) : wt'[p] = wt[p]
    ]_vars

\* C28: a working-tree file that is in the HEAD commit and has no staged
\* entry is reported as modified by status exactly when its mtime differs
\* from the mtime recorded in HEAD and its hash differs from HEAD's hash.
C28_ModifiedIffMtimeAndHash ==
  \A p \in Paths :
    (wt[p] # NoFile /\ HeadEntries[p] # NoFile /\ staged[p] = NoEntry)
      => ((ComputeStagedData.modified_files[p] >= 1)
            <=> (/\ wt[p].mtime # HeadEntries[p].mtime
                 /\ wt[p].hash # HeadEntries[p].hash))

\* C29: a working-tree file that has a staged entry is reported by status
\* among the staged files, with the status of its staged entry (Added,
\* Modified or Removed), and is reported neither as modified nor as
\* untracked.
C29_StagedFileReportedAsStaged ==
  \A p \in Paths :
    (wt[p] # NoFile /\ staged[p] # NoEntry)
      => /\ ComputeStagedData.added_files[p] >= 1
         /\ staged[p].status \in {"Added", "Modified", "Removed"}
         /\ ComputeStagedData.modified_files[p] = 0
         /\ p \notin ComputeStagedData.untracked_files

C29_Witness ==
  \E p \in Paths :
    /\ wt[p] # NoFile /\ staged[p] # NoEntry /\ Parent(p) # RootDir
    /\ HeadEntries[p] # NoFile
    /\ wt[p].mtime # HeadEntries[p].mtime
    /\ wt[p].hash # HeadEntries[p].hash
    /\ ComputeStagedData.added_files[p] >= 1

\* C30: while a merge conflict is recorded on path P, add P creates a staged
\* entry for P and removes the conflict record of P; status then reports P
\* among the staged files and not among the merge conflicts.
C30_AddResolvesConflict ==
  [][ \A p \in Paths :
        (p \in conflicts /\ AddPath(p))
        => /\ staged'[p] # NoEntry
           /\ p \notin conflicts'
           /\ ComputeStagedData'.added_files[p] >= 1
           /\ p \notin ComputeStagedData'.merge_conflicts
    ]_vars

\* C30 (amended): the same, for a path P that is present in the working
\* tree; the staged entry holds the hash of the working-tree file.
C30_AddOfPresentFileResolvesConflict ==
  [][ \A p \in Paths :
        (p \in conflicts /\ wt[p] # NoFile /\ AddPath(p))
        => /\ staged'[p] # NoEntry
           /\ staged'[p].hash = wt[p].hash
           /\ p \notin conflicts'
           /\ ComputeStagedData'.added_files[p] >= 1
           /\ p \notin ComputeStagedData'.merge_conflicts
    ]_vars

\* an add has staged a file that is unchanged with respect to HEAD and has
\* cleared the last conflict record, the merge being still in progress
C30_Witness ==
  /\ last = Outcome("add", TRUE, FALSE)
  /\ conflicts = {}
  /\ mergeHead # 0
  /\ \E p \in Paths : /\ wt[p] # NoFile
                      /\ HeadEntries[p] # NoFile /\ HeadEntries[p].hash = wt[p].hash
                      /\ staged[p] # NoEntry /\ staged[p].status = "Added"

\* C27: once the server has received complete for a pushed commit, the
\* finalize worker eventually runs the task of that commit and releases the
\* lock of its branch, which can then be locked again.
C27_CompleteLeadsToUnlock ==
  \A x \in CommitIds, b \in SrvBranches :
    ([commit |-> x, branch |-> b] \in pending)
      ~> (/\ [commit |-> x, branch |-> b] \notin pending
          /\ lockFile[BranchNameNoSlashes(b)] = 0)

\* C38: after a merge that completes without conflict of a branch that is
\* ahead of HEAD, into a working tree that holds HEAD's files, every file of
\* the merged commit is in the working tree with the merged content and
\* every file of HEAD that the merged commit no longer has is gone.
C38_MergedTreeEqualsResult ==
  [][ \A b \in LocalBranches :
        (/\ refs[b] # 0 /\ CommitIdExists(refs[b]) /\ CommitIdExists(HeadCommitId)
         /\ HeadCommitId \in HistoryFromCommitId(refs[b])
         /\ \A p \in Paths : wt[p].hash = HeadEntries[p].hash
         /\ \E done \in SUBSET Paths : Merge(b, done)
         /\ last'.ok)
        => \A p \in Paths : wt'[p].hash = commits[refs[b]].entries[p].hash
    ]_vars

\* C39: when add returns successfully for a file on disk whose hash equals
\* the hash HEAD has for the path, and no conflict is recorded on the path,
\* the path has no staged entry afterwards, whatever was staged before.
C39_UnchangedFileNotStaged ==
  [][ \A p \in Paths :
        (/\ wt[p] # NoFile /\ HeadEntries[p] # NoFile
         /\ HeadEntries[p].hash = wt[p].hash
         /\ p \notin conflicts
         /\ AddPath(p) /\ last'.ok)
        => staged'[p] = NoEntry
    ]_vars

\* C40: status lists every path that has a staged entry exactly once among
\* the staged files.
C40_StagedListedOnce ==
  \A p \in Paths :
    staged[p] # NoEntry => ComputeStagedData.added_files[p] = 1

\* C36: the server answers a create-commit request with success only when
\* the commit is in the commits KV and the branch points to it afterwards.
C36_SuccessMeansStored ==
  [][ /\ \A c \in Clients :
           (PostCommit(c) /\ CreateResponse(lastCreate'.ok) = "success")
           => /\ Head(push[c].todo) \in srvCommits'
              /\ srvRefs'[push[c].branch] = Head(push[c].todo)
      /\ \A b \in SrvBranches, x \in CommitIds :
           (ForeignCreate(b, x) /\ CreateResponse(lastCreate'.ok) = "success")
           => /\ x \in srvCommits'
              /\ srvRefs'[b] = x
    ]_vars

\* C34: while the push of one client is the only holder of the lock of a
\* branch, a step that moves the ref of that branch or adds a commit to the
\* server is a step of that push.
C34_LockKeepsOthersOut ==
  [][ \A c \in Clients, b \in SrvBranches :
        (/\ pc[c] = "pushing" /\ push[c].branch = b
         /\ lockFile[BranchNameNoSlashes(b)] # 0
         /\ holders[BranchNameNoSlashes(b)] = {c}
         /\ (srvRefs'[b] # srvRefs[b] \/ srvCommits' # srvCommits))
        => (PostCommit(c) \/ FinishPush(c))
    ]_vars

\* C35: the locks of distinct branches are independent: a lock request
\* granted for one branch, and an unlock of one branch, leave every other
\* branch as locked or unlocked as it was.
C35_LocksIndependent ==
  [][ \A b2 \in SlashBranches :
        /\ \A c \in Clients :
             (LockWrite(c) /\ push[c].branch # b2)
             => (IsLocked(b2)' <=> IsLocked(b2))
        /\ \A b \in SlashBranches \ {b2} :
             Unlock(b) => (IsLocked(b2)' <=> IsLocked(b2))
    ]_vars

\* C37: an item of the finalize queue that cannot be decoded does not stop
\* the worker: every task that is enqueued is eventually taken and run.
C37_BadItemDoesNotStopWorker ==
  \A x \in CommitIds, b \in SrvBranches :
    ([commit |-> x, branch |-> b] \in pending)
      ~> ([commit |-> x, branch |-> b] \notin pending)

\* C33: a call of hash_file_contents_with_retry always returns: with the
\* hash of the file at the first attempt that succeeds, and with the error
\* after the sixth failure in a row; the delay doubles with every failure.
C33_RetryTerminates ==
  /\ (hashCall.state = "running") ~> (hashCall.state \in {"ok", "err"})
  /\ [](/\ retries <= total_retries + 1
        /\ timeout = 2 ^ retries
        /\ hashCall.state = "running" => retries <= total_retries
        /\ hashCall.state = "err" => retries = total_retries + 1)
  /\ [][ (hashCall.state = "running" /\ hashCall'.state = "ok")
           => /\ hashCall'.hash = wt[hashCall.path].hash
              /\ retries' = retries ]_vars

\* a call has returned the error after six failures, and the file is there
C33_Witness ==
  /\ hashCall.state = "err"
  /\ retries = total_retries + 1
  /\ timeout = 64
  /\ wt[hashCall.path] # NoFile

\* C31: the latest commit reported for a directory is the newest commit (the
\* greatest timestamp) among the commits that last touched a file of the
\* directory's subtree, read from the cache or recomputed on a miss.
C31_LatestCommitIsNewest ==
  dirMeta.state = "done" => dirMeta.latest_commit = NewestCommit(dirMeta.dir)

\* C32: list_directory reports total_entries = T and total_pages = ceil(T/S),
\* no page holds more than S entries, and the pages 1..total_pages together
\* hold every sub-directory and file of the directory exactly once.
RECURSIVE ConcatPages(_, _, _)
ConcatPages(directory, page_size, n) ==
  IF n = 0 THEN <<>>
  ELSE ConcatPages(directory, page_size, n - 1)
         \o ListDirectoryEntries(directory, n, page_size)
Occurrences(seq, e) == Cardinality({i \in 1..Len(seq) : seq[i] = e})
Children(directory) ==
  {d \in ListDirs : d # RootDir /\ Parent(d) = directory}
    \cup {f \in BrowseFiles : tree[f] # 0 /\ Parent(f) = directory}
C32_PagesCoverDirectory ==
  listing.state = "done" =>
    LET T == Cardinality(Children(listing.directory))
        S == listing.page_size
    IN /\ listing.total_entries = T
       /\ listing.total_pages * S >= T
       /\ (listing.total_pages - 1) * S < T
       /\ Len(listing.entries) <= S
       /\ \A e \in Children(listing.directory) :
            Occurrences(ConcatPages(listing.directory, S, listing.total_pages), e) = 1

====
